---- MODULE Spec2Model ----
(***************************************************************************)
(* The flow backup store of node-red-mcp-server (backup tools module):     *)
(* createBackup, listBackups, getBackupFlows and checkBackupHealth over a  *)
(* backup directory holding backup_metadata.json (the index) and one       *)
(* <name>.json file per backup.                                            *)
(*                                                                         *)
(* Strings are sequences of one-character strings, so that the name        *)
(* pattern, the reserved words, the generated names and the file names are *)
(* computed character by character as the code computes them.  A file is   *)
(* held as the JSON document its text decodes to (JSON.stringify followed  *)
(* by JSON.parse of the documents written here: strings, numbers, booleans,*)
(* arrays and objects), or as garbage when its text does not decode.       *)
(* Every invocation is a process that advances one await at a time.        *)
(***************************************************************************)
EXTENDS Integers, Sequences, FiniteSets, TLC

(***************************************************************************)
(* Bounds of the model.                                                    *)
(***************************************************************************)
\* backups made in one behaviour before createBackup is no longer invoked
MaxCreates == 2
\* file operations and requests that fail in one behaviour
MaxFaults == 1
\* largest maxBackups a configuration supplies
MaxCap == 2

\* the invocations that may be in flight at once
Procs == {1, 2}

(***************************************************************************)
(* Characters and strings.                                                 *)
(***************************************************************************)
LowerSeq == <<"a","b","c","d","e","f","g","h","i","j","k","l","m",
              "n","o","p","q","r","s","t","u","v","w","x","y","z">>
UpperSeq == <<"A","B","C","D","E","F","G","H","I","J","K","L","M",
              "N","O","P","Q","R","S","T","U","V","W","X","Y","Z">>
DigitSeq == <<"0","1","2","3","4","5","6","7","8","9">>

Range(s) == {s[i] : i \in DOMAIN s}

\* String.prototype.toLowerCase, one character
ToLowerChar(c) ==
  IF \E i \in DOMAIN UpperSeq : UpperSeq[i] = c
    THEN LowerSeq[CHOOSE i \in DOMAIN UpperSeq : UpperSeq[i] = c]
    ELSE c

ToLowerCase(s) == [i \in DOMAIN s |-> ToLowerChar(s[i])]

\* the character class [a-zA-Z0-9_\-]
NameChars == Range(LowerSeq) \cup Range(UpperSeq) \cup Range(DigitSeq) \cup {"_", "-"}

\* /^[a-zA-Z0-9_\-]{1,50}$/.test(name)
NamePatternTest(name) ==
  /\ Len(name) >= 1
  /\ Len(name) <= 50
  /\ \A i \in DOMAIN name : name[i] \in NameChars

\* ["latest", "current", "temp", "backup"]
ReservedNames ==
  { <<"l","a","t","e","s","t">>, <<"c","u","r","r","e","n","t">>,
    <<"t","e","m","p">>, <<"b","a","c","k","u","p">> }

\* the decimal digit of n (0..9) and back
DigitChar(n) == DigitSeq[n + 1]
DigitVal(c) == (CHOOSE i \in DOMAIN DigitSeq : DigitSeq[i] = c) - 1

TwoDigits(n) == <<DigitChar((n \div 10) % 10), DigitChar(n % 10)>>
ThreeDigits(n) == <<DigitChar((n \div 100) % 10)>> \o TwoDigits(n)

(***************************************************************************)
(* Time.  The clock counts milliseconds from 2026-11-01T00:00:00.000Z and  *)
(* stays inside November 2026, so only day, hour, minute, second and       *)
(* millisecond vary in an ISO string.                                      *)
(***************************************************************************)
MsPerSecond == 1000
MsPerMinute == 60 * MsPerSecond
MsPerHour == 60 * MsPerMinute
MsPerDay == 24 * MsPerHour

\* Date.prototype.toISOString: YYYY-MM-DDTHH:mm:ss.sssZ
ToISOString(t) ==
  <<"2","0","2","6","-","1","1","-">> \o TwoDigits(1 + (t \div MsPerDay))
    \o <<"T">> \o TwoDigits((t \div MsPerHour) % 24)
    \o <<":">> \o TwoDigits((t \div MsPerMinute) % 60)
    \o <<":">> \o TwoDigits((t \div MsPerSecond) % 60)
    \o <<".">> \o ThreeDigits(t % MsPerSecond) \o <<"Z">>

\* new Date(isoString).getTime(), for the strings toISOString produces
DateParse(s) ==
  LET num2(i) == 10 * DigitVal(s[i]) + DigitVal(s[i + 1])
  IN (num2(9) - 1) * MsPerDay + num2(12) * MsPerHour + num2(15) * MsPerMinute
       + num2(18) * MsPerSecond
       + 100 * DigitVal(s[21]) + 10 * DigitVal(s[22]) + DigitVal(s[23])

\* s.replace(/[-:.]/g, "")
RECURSIVE StripPunct(_)
StripPunct(s) ==
  IF s = <<>> THEN <<>>
  ELSE IF Head(s) \in {"-", ":", "."} THEN StripPunct(Tail(s))
  ELSE <<Head(s)>> \o StripPunct(Tail(s))

\* s.replace("T", "_"): the first occurrence only
ReplaceFirstT(s) ==
  IF \E i \in DOMAIN s : s[i] = "T"
    THEN LET k == CHOOSE i \in DOMAIN s : s[i] = "T" /\ \A j \in 1..(i - 1) : s[j] # "T"
         IN [i \in DOMAIN s |-> IF i = k THEN "_" ELSE s[i]]
    ELSE s

\* s.substring(0, n)
Substring0(s, n) == SubSeq(s, 1, IF Len(s) < n THEN Len(s) ELSE n)

BackupPrefix == <<"b","a","c","k","u","p","_">>

(***************************************************************************)
(* Arguments.  An optional string argument is a record: given is FALSE     *)
(* for undefined, and val is the string.                                   *)
(***************************************************************************)
Undefined == [given |-> FALSE, val |-> <<>>]
Str(s) == [given |-> TRUE, val |-> s]

\* JavaScript truthiness of an optional string
Truthy(a) == a.given /\ a.val # <<>>

(***************************************************************************)
(* createBackupName.  The result carries err = "" and the name, or the     *)
(* error thrown.                                                           *)
(***************************************************************************)
GeneratedName(timestamp) ==
  BackupPrefix \o Substring0(ReplaceFirstT(StripPunct(timestamp)), 15)

createBackupName(name, timestamp) ==
  IF Truthy(name)
    THEN IF ~NamePatternTest(name.val)
           THEN [err |-> "InvalidName", val |-> <<>>]
         ELSE IF ToLowerCase(name.val) \in ReservedNames
           THEN [err |-> "InvalidName", val |-> <<>>]
         ELSE [err |-> "", val |-> name.val]
    ELSE [err |-> "", val |-> GeneratedName(timestamp)]

(***************************************************************************)
(* Flow payloads.  A value received from Node-RED is an array of elements  *)
(* or something else; an element is an object with an id and possibly a    *)
(* type, or null.                                                          *)
(***************************************************************************)
\* the type of an element that has no type field
NoType == "undefined"

Elem(id, type) == [json |-> "object", id |-> id, type |-> type]
NullElem == [json |-> "null", id |-> "", type |-> NoType]

Array(elems) == [isArray |-> TRUE, elems |-> elems]
\* a response that is not an array (an error object, a page of text)
NotArray == [isArray |-> FALSE, elems |-> <<>>]

\* a serialization that leaves the id of an element out
StringifyElemNoId(e) ==
  IF e.json = "null" THEN <<"null">>
  ELSE <<"{">>
         \o (IF e.type = NoType THEN <<>> ELSE <<"type:", e.type>>)
         \o <<"}">>

\* JSON.stringify of one element, as tokens
StringifyElem(e) ==
  IF e.json = "null" THEN <<"null">>
  ELSE <<"{", "id:", e.id>>
         \o (IF e.type = NoType THEN <<>> ELSE <<",", "type:", e.type>>)
         \o <<"}">>

RECURSIVE StringifyElems(_)
StringifyElems(elems) ==
  IF elems = <<>> THEN <<>>
  ELSE StringifyElem(Head(elems))
         \o (IF Tail(elems) = <<>> THEN <<>> ELSE <<",">>)
         \o StringifyElems(Tail(elems))

\* JSON.stringify(flows): the text as a sequence of tokens
Stringify(flows) ==
  IF flows.isArray THEN <<"[">> \o StringifyElems(flows.elems) \o <<"]">>
  ELSE <<"{}">>

\* crypto.createHash("sha256").update(text).digest("hex"): a digest is held
\* as the text it was computed from (no two texts share a digest)
Sha256Hex(text) == <<"sha256">> \o text

Checksum(flows) == Sha256Hex(Stringify(flows))

IsTab(e) == e.type = "tab"
IsNode(e) == e.type # NoType /\ e.type # "" /\ e.type # "tab" /\ e.type # "subflow"

\* flows.filter(...).length
CountTabs(elems) == Cardinality({i \in DOMAIN elems : IsTab(elems[i])})
CountNodes(elems) == Cardinality({i \in DOMAIN elems : IsNode(elems[i])})

NoAnalysis == [checksum |-> <<>>, flowsCount |-> 0, nodesCount |-> 0, size |-> 0]

\* analyzeFlows: err = "" and the analysis, or the error thrown (reading
\* .type of a null element is a TypeError)
analyzeFlows(flows) ==
  IF ~flows.isArray
    THEN [err |-> "InvalidPayload", val |-> NoAnalysis]
  ELSE IF \E i \in DOMAIN flows.elems : flows.elems[i].json = "null"
    THEN [err |-> "TypeError", val |-> NoAnalysis]
  ELSE [err |-> "",
        val |-> [checksum |-> Checksum(flows),
                 flowsCount |-> CountTabs(flows.elems),
                 nodesCount |-> CountNodes(flows.elems),
                 size |-> Len(Stringify(flows))]]

\* an integrity check that accepts every payload
VerifyAlways(flows, expected) == TRUE

\* the integrity check of getBackupFlows and checkBackupHealth
VerifyChecksum(flows, expected) == Checksum(flows) = expected

(***************************************************************************)
(* Paths and documents.  Every document has the same fields, so that any   *)
(* file can be read as any kind: an index has backups and config, a backup *)
(* file has metadata and flows, and the fields a document lacks are        *)
(* undefined to its reader.                                                *)
(***************************************************************************)
JsonExt == <<".","j","s","o","n">>

\* DEFAULTS.metadataFile, in the backup directory
MetadataFile == <<"b","a","c","k","u","p","_","m","e","t","a","d","a","t","a">> \o JsonExt

\* `${backupName}.json`, in the backup directory
BackupFileName(backupName) == backupName \o JsonExt

DefaultMaxBackups == 10
DefaultAutoCleanup == TRUE
DefaultReason == "Manual backup"

NoMeta ==
  [name |-> <<>>, timestamp |-> <<>>, reason |-> "", checksum |-> <<>>,
   flowsCount |-> 0, nodesCount |-> 0, size |-> 0]
NoConfig == [maxBackups |-> 0, autoCleanup |-> FALSE]

IndexDoc(config, backups) ==
  [kind |-> "index", config |-> config, backups |-> backups,
   metadata |-> NoMeta, flows |-> NotArray]

BackupDoc(metadata, flows) ==
  [kind |-> "backup", config |-> NoConfig, backups |-> <<>>,
   metadata |-> metadata, flows |-> flows]

\* a file whose text JSON.parse rejects
GarbageDoc ==
  [kind |-> "garbage", config |-> NoConfig, backups |-> <<>>,
   metadata |-> NoMeta, flows |-> NotArray]

\* { ...backupData.metadata, filename }
IndexEntry(metadata) ==
  [name |-> metadata.name, timestamp |-> metadata.timestamp,
   reason |-> metadata.reason, checksum |-> metadata.checksum,
   flowsCount |-> metadata.flowsCount, nodesCount |-> metadata.nodesCount,
   size |-> metadata.size, filename |-> BackupFileName(metadata.name)]

\* a runtime configuration: maxBackups 0 stands for one that is not set
\* (undefined and NaN take the default as 0 does), autoCleanup is "unset",
\* "true" or "false"
InitialConfig(config) ==
  [maxBackups |-> IF config.maxBackups = 0 THEN DefaultMaxBackups ELSE config.maxBackups,
   autoCleanup |-> IF config.autoCleanup = "unset" THEN DefaultAutoCleanup
                   ELSE config.autoCleanup = "true"]

\* the document ensureBackupDirectory writes when there is no index
initialMetadata(config) == IndexDoc(InitialConfig(config), <<>>)

(***************************************************************************)
(* Array.prototype.sort((a, b) => new Date(b.timestamp) - new Date(        *)
(* a.timestamp)): descending by time, and stable, so entries of equal time *)
(* keep their order.                                                       *)
(***************************************************************************)
RECURSIVE InsertDesc(_, _)
InsertDesc(e, sorted) ==
  IF sorted = <<>> THEN <<e>>
  ELSE IF DateParse(Head(sorted).timestamp) >= DateParse(e.timestamp)
    THEN <<Head(sorted)>> \o InsertDesc(e, Tail(sorted))
  ELSE <<e>> \o sorted

\* no sort: the entries stay in the order of the index
NoSort(backups) == backups

RECURSIVE SortDesc(_)
SortDesc(backups) ==
  IF backups = <<>> THEN <<>>
  ELSE InsertDesc(backups[Len(backups)], SortDesc(SubSeq(backups, 1, Len(backups) - 1)))

\* a.slice(0, n) and a.slice(n), for n >= 0
SliceTo(a, n) == SubSeq(a, 1, IF n < Len(a) THEN n ELSE Len(a))
SliceFrom(a, n) == SubSeq(a, (IF n < Len(a) THEN n ELSE Len(a)) + 1, Len(a))

\* the condition of the auto cleanup, on the index after the push
NeedsCleanup(metadata) ==
  metadata.config.autoCleanup /\ Len(metadata.backups) > metadata.config.maxBackups

(***************************************************************************)
(* Inputs.                                                                 *)
(***************************************************************************)
NameA == <<"a">>
\* a name the pattern accepts whose file is the index file itself
NameMetadata == <<"b","a","c","k","u","p","_","m","e","t","a","d","a","t","a">>
\* a reserved word in mixed case, a character outside the class, 51 characters
NameReserved == <<"T","e","m","p">>
NameBadChar == <<"a"," ">>
NameTooLong == [i \in 1..51 |-> "x"]

\* the (name, reason) arguments of backup-flows; a reason is a plain string
\* here, "" standing for one that is undefined or empty
CreateInputs ==
  { [name |-> Undefined, reason |-> ""],
    [name |-> Str(<<>>), reason |-> ""],
    [name |-> Str(NameA), reason |-> "nightly"],
    [name |-> Str(NameMetadata), reason |-> ""],
    [name |-> Str(NameReserved), reason |-> ""],
    [name |-> Str(NameBadChar), reason |-> ""],
    [name |-> Str(NameTooLong), reason |-> ""] }

\* the responses of GET /flows
FlowsOne == Array(<<Elem("t1", "tab")>>)
FlowsTwo == Array(<<Elem("t1", "tab"), Elem("n1", "inject")>>)
FlowResponses == {FlowsOne, FlowsTwo, NotArray, Array(<<NullElem>>)}

\* the runtime configurations
Configs ==
  { [maxBackups |-> 0, autoCleanup |-> "unset"],
    [maxBackups |-> 1, autoCleanup |-> "true"],
    [maxBackups |-> MaxCap, autoCleanup |-> "unset"],
    [maxBackups |-> 1, autoCleanup |-> "false"] }

\* the instants the clock takes: the same millisecond, the next one, the
\* next second
ClockValues == {0, 1, MsPerSecond}

(***************************************************************************)
(* State.                                                                  *)
(***************************************************************************)
VARIABLES
  dirExists,  \* the backup directory exists
  files,      \* the files of the backup directory: file name -> document
  clock,      \* Date.now()
  pc,         \* where each invocation stands
  loc,        \* the local variables of each invocation
  made,       \* history: the backups createBackup has returned
  evicted,    \* history: the entries a completed createBackup pruned
  codec,      \* a payload analysed and a payload verified against its checksum
  faults      \* file operations and requests that have failed

vars == <<dirExists, files, clock, pc, loc, made, evicted, codec, faults>>

NoResult ==
  [status |-> "none", error |-> "", metadata |-> NoMeta, flows |-> NotArray,
   list |-> <<>>,
   health |-> [healthy |-> FALSE, count |-> 0, totalSize |-> 0,
               latestAge |-> -1, issues |-> <<>>]]

ErrorResult(kind) == [NoResult EXCEPT !.status = "error", !.error = kind]

NoCodec ==
  [stage |-> "none", payload |-> NotArray, other |-> NotArray,
   analysis |-> NoAnalysis, verified |-> FALSE]

InitLoc ==
  [op |-> "", name |-> Undefined, reason |-> "", detailed |-> FALSE,
   flows |-> NotArray, timestamp |-> <<>>, backupData |-> BackupDoc(NoMeta, NotArray),
   metadata |-> IndexDoc(NoConfig, <<>>), toDelete |-> <<>>, pruned |-> <<>>,
   index |-> 0, corruptedCount |-> 0, totalSize |-> 0,
   result |-> NoResult,
   read |-> GarbageDoc]  \* history: the index as createBackup parsed it

Init ==
  /\ dirExists = FALSE
  /\ files = [f \in {} |-> GarbageDoc]
  /\ clock = 0
  /\ pc = [p \in Procs |-> "idle"]
  /\ loc = [p \in Procs |-> InitLoc]
  /\ made = {}
  /\ evicted = {}
  /\ codec = NoCodec
  /\ faults = 0

\* fs.writeFile(name, document)
WriteFile(fs, name, doc) ==
  [f \in DOMAIN fs \cup {name} |-> IF f = name THEN doc ELSE fs[f]]

\* an unlink that deletes nothing
UnlinkNothing(fs, name) == fs

\* fs.unlink(name) of a file that exists
Unlink(fs, name) == [f \in DOMAIN fs \ {name} |-> fs[f]]

\* JSON.parse(await fs.readFile(name)): the document, or the error thrown;
\* io = "fail" is a read that fails for another reason than a missing file
ReadJson(fs, name, io) ==
  IF name \notin DOMAIN fs THEN [err |-> "ENOENT", doc |-> GarbageDoc]
  ELSE IF io = "fail" THEN [err |-> "IOFailure", doc |-> GarbageDoc]
  ELSE IF fs[name].kind = "garbage" THEN [err |-> "SyntaxError", doc |-> GarbageDoc]
  ELSE [err |-> "", doc |-> fs[name]]

\* the failures counted: at most MaxFaults operations fail in one behaviour
Faulted(io) ==
  /\ io = "fail" => faults < MaxFaults
  /\ faults' = IF io = "fail" THEN faults + 1 ELSE faults

\* the index file as it is on disk (a missing file reads as one that does
\* not parse)
IndexFile(fs) == IF MetadataFile \in DOMAIN fs THEN fs[MetadataFile] ELSE GarbageDoc

\* a throw no handler catches: the invocation never returns
ThrowUncaught(p, kind) ==
  /\ pc' = [pc EXCEPT ![p] = "crashed"]
  /\ loc' = [loc EXCEPT ![p].result = ErrorResult(kind)]

\* a throw inside a tool handler: the invocation ends with the error
Throw(p, kind) ==
  /\ pc' = [pc EXCEPT ![p] = "done"]
  /\ loc' = [loc EXCEPT ![p].result = ErrorResult(kind)]

\* the first await of each operation after ensureBackupDirectory
Body(op) ==
  CASE op = "create" -> "fetchFlows"
    [] op = "list" -> "listRead"
    [] op = "get" -> "getRead"
    [] op = "health" -> "healthRead"

(***************************************************************************)
(* The tool handlers start an invocation.                                  *)
(***************************************************************************)
StartCreate(p, in) ==
  /\ pc[p] = "idle"
  /\ Cardinality(made) < MaxCreates
  /\ pc' = [pc EXCEPT ![p] = "mkdir"]
  /\ loc' = [loc EXCEPT ![p] = [InitLoc EXCEPT !.op = "create", !.name = in.name,
                                               !.reason = in.reason]]
  /\ UNCHANGED <<dirExists, files, clock, made, evicted, codec, faults>>

StartList(p, detailed) ==
  /\ pc[p] = "idle"
  /\ pc' = [pc EXCEPT ![p] = "mkdir"]
  /\ loc' = [loc EXCEPT ![p] = [InitLoc EXCEPT !.op = "list", !.detailed = detailed]]
  /\ UNCHANGED <<dirExists, files, clock, made, evicted, codec, faults>>

StartGet(p, name) ==
  /\ pc[p] = "idle"
  /\ pc' = [pc EXCEPT ![p] = "mkdir"]
  /\ loc' = [loc EXCEPT ![p] = [InitLoc EXCEPT !.op = "get", !.name = Str(name)]]
  /\ UNCHANGED <<dirExists, files, clock, made, evicted, codec, faults>>

StartHealth(p) ==
  /\ pc[p] = "idle"
  /\ pc' = [pc EXCEPT ![p] = "mkdir"]
  /\ loc' = [loc EXCEPT ![p] = [InitLoc EXCEPT !.op = "health"]]
  /\ UNCHANGED <<dirExists, files, clock, made, evicted, codec, faults>>

(***************************************************************************)
(* ensureBackupDirectory.                                                  *)
(***************************************************************************)
\* await fs.mkdir(backupDir, { recursive: true })
Mkdir(p, io) ==
  /\ pc[p] = "mkdir"
  /\ IF io = "fail"
       THEN Throw(p, "IOFailure") /\ UNCHANGED dirExists
       ELSE /\ dirExists' = TRUE
            /\ pc' = [pc EXCEPT ![p] = "access"]
            /\ UNCHANGED loc
  /\ Faulted(io)
  /\ UNCHANGED <<files, clock, made, evicted, codec>>

\* an access that always throws
IndexMissingAlways(fs) == TRUE

\* fs.access(metadataPath) throws: the file does not exist
IndexMissing(fs) == MetadataFile \notin DOMAIN fs

\* await fs.access(metadataPath), and the catch that leads to the write
Access(p) ==
  /\ pc[p] = "access"
  /\ pc' = [pc EXCEPT ![p] = IF IndexMissing(files)
                               THEN "initWrite" ELSE Body(loc[p].op)]
  /\ UNCHANGED <<dirExists, files, clock, loc, made, evicted, codec, faults>>

\* await fs.writeFile(metadataPath, initialMetadata)
InitWrite(p, config, io) ==
  /\ pc[p] = "initWrite"
  /\ IF io = "fail"
       THEN Throw(p, "IOFailure") /\ UNCHANGED files
       ELSE /\ files' = WriteFile(files, MetadataFile, initialMetadata(config))
            /\ pc' = [pc EXCEPT ![p] = Body(loc[p].op)]
            /\ UNCHANGED loc
  /\ Faulted(io)
  /\ UNCHANGED <<dirExists, clock, made, evicted, codec>>

(***************************************************************************)
(* createBackup, one action for each await after ensureBackupDirectory.    *)
(***************************************************************************)
\* reason || "Manual backup"
ReasonOrDefault(reason) == IF reason = "" THEN DefaultReason ELSE reason

\* backupData, from the values createBackup has once the flows are analysed
MakeBackupData(backupName, timestamp, reason, analysis, flows) ==
  BackupDoc([name |-> backupName, timestamp |-> timestamp,
             reason |-> ReasonOrDefault(reason), checksum |-> analysis.checksum,
             flowsCount |-> analysis.flowsCount, nodesCount |-> analysis.nodesCount,
             size |-> analysis.size],
            flows)

\* await callNodeRed("get", "/flows"), then the timestamp, createBackupName
\* and analyzeFlows, which run before the next await
FetchFlows(p, flows, io) ==
  /\ pc[p] = "fetchFlows"
  /\ LET timestamp == ToISOString(clock)
         backupName == createBackupName(loc[p].name, timestamp)
         analysis == analyzeFlows(flows)
     IN IF io = "fail" THEN Throw(p, "IOFailure")
        ELSE IF backupName.err # "" THEN Throw(p, backupName.err)
        ELSE IF analysis.err # "" THEN Throw(p, analysis.err)
        ELSE /\ pc' = [pc EXCEPT ![p] = "readMetadata"]
             /\ loc' = [loc EXCEPT ![p].flows = flows, ![p].timestamp = timestamp,
                          ![p].backupData =
                            MakeBackupData(backupName.val, timestamp, loc[p].reason,
                                           analysis.val, flows)]
  /\ Faulted(io)
  /\ UNCHANGED <<dirExists, files, clock, made, evicted, codec>>

\* a duplicate check that finds no name
HasNameNever(backups, backupName) == FALSE

\* metadata.backups.some((b) => b.name === backupName)
HasName(backups, backupName) == \E i \in DOMAIN backups : backups[i].name = backupName

\* await fs.readFile(metadataPath), JSON.parse and the duplicate check
ReadMetadata(p, io) ==
  /\ pc[p] = "readMetadata"
  /\ LET r == ReadJson(files, MetadataFile, io)
     IN IF r.err # "" THEN Throw(p, IF r.err = "ENOENT" THEN "IOFailure" ELSE r.err)
        ELSE IF r.doc.kind # "index" THEN Throw(p, "TypeError")
        ELSE IF HasName(r.doc.backups, loc[p].backupData.metadata.name)
          THEN Throw(p, "DuplicateName")
        ELSE /\ pc' = [pc EXCEPT ![p] = "writeBackup"]
             /\ loc' = [loc EXCEPT ![p].metadata = r.doc, ![p].read = r.doc]
  /\ Faulted(io)
  /\ UNCHANGED <<dirExists, files, clock, made, evicted, codec>>

\* a push that takes the capacity and the flag from the defaults of the
\* runtime configuration instead of the index
PushAndSortRuntimeConfig(metadata, entry) ==
  LET pushed == [metadata EXCEPT !.config = [maxBackups |-> DefaultMaxBackups,
                                             autoCleanup |-> DefaultAutoCleanup],
                                 !.backups = Append(metadata.backups, entry)]
  IN IF NeedsCleanup(pushed)
       THEN [metadata |-> [pushed EXCEPT !.backups = SortDesc(pushed.backups)],
             toDelete |-> SliceFrom(SortDesc(pushed.backups), pushed.config.maxBackups)]
       ELSE [metadata |-> pushed, toDelete |-> <<>>]

\* metadata.backups.push(...), and the sort and toDelete of the auto cleanup
PushAndSort(metadata, entry) ==
  LET pushed == [metadata EXCEPT !.backups = Append(metadata.backups, entry)]
  IN IF NeedsCleanup(pushed)
       THEN [metadata |-> [pushed EXCEPT !.backups = SortDesc(pushed.backups)],
             toDelete |-> SliceFrom(SortDesc(pushed.backups), pushed.config.maxBackups)]
       ELSE [metadata |-> pushed, toDelete |-> <<>>]

\* no slice: every entry stays
KeepNewestNoSlice(metadata) == metadata

\* metadata.backups = sortedBackups.slice(0, maxBackups)
KeepNewest(metadata) ==
  [metadata EXCEPT !.backups = SliceTo(metadata.backups, metadata.config.maxBackups)]

\* await fs.writeFile(backupFile, backupData), then the push and, when the
\* cleanup applies, the sort and the slice that picks what to delete
WriteBackup(p, io) ==
  /\ pc[p] = "writeBackup"
  /\ IF io = "fail"
       THEN Throw(p, "IOFailure") /\ UNCHANGED files
       ELSE LET data == loc[p].backupData
                next == PushAndSort(loc[p].metadata, IndexEntry(data.metadata))
            IN /\ files' = WriteFile(files, BackupFileName(data.metadata.name), data)
               /\ pc' = [pc EXCEPT ![p] = IF next.toDelete = <<>>
                                            THEN "writeMetadata" ELSE "unlink"]
               /\ loc' = [loc EXCEPT ![p].metadata = next.metadata,
                                     ![p].toDelete = next.toDelete,
                                     ![p].pruned = next.toDelete]
  /\ Faulted(io)
  /\ UNCHANGED <<dirExists, clock, made, evicted, codec>>

\* an unlink whose failure ends the invocation
NextAfterUnlinkThrows(io, rest) ==
  IF io = "fail" THEN "done" ELSE IF rest = <<>> THEN "writeMetadata" ELSE "unlink"

\* try { await fs.unlink(...) } catch {}: where the loop goes after a round,
\* whether the unlink failed or not
NextAfterUnlink(io, rest) == IF rest = <<>> THEN "writeMetadata" ELSE "unlink"

\* one round of the loop: await fs.unlink(...) inside try {} catch {}; after
\* the last round the index keeps the newest maxBackups entries
UnlinkNext(p, io) ==
  /\ pc[p] = "unlink"
  /\ LET backup == Head(loc[p].toDelete)
         rest == Tail(loc[p].toDelete)
     IN /\ files' = IF io = "ok" /\ backup.filename \in DOMAIN files
                      THEN Unlink(files, backup.filename) ELSE files
        /\ pc' = [pc EXCEPT ![p] = NextAfterUnlink(io, rest)]
        /\ loc' = IF rest = <<>>
                    THEN [loc EXCEPT ![p].toDelete = rest,
                                     ![p].metadata = KeepNewest(loc[p].metadata)]
                    ELSE [loc EXCEPT ![p].toDelete = rest]
  /\ Faulted(io)
  /\ UNCHANGED <<dirExists, clock, made, evicted, codec>>

\* await fs.writeFile(metadataPath, metadata); return backupData.metadata
WriteMetadata(p, io) ==
  /\ pc[p] = "writeMetadata"
  /\ IF io = "fail"
       THEN Throw(p, "IOFailure") /\ UNCHANGED <<files, made, evicted>>
       ELSE /\ files' = WriteFile(files, MetadataFile, loc[p].metadata)
            /\ pc' = [pc EXCEPT ![p] = "done"]
            /\ loc' = [loc EXCEPT ![p].result =
                         [NoResult EXCEPT !.status = "ok",
                                          !.metadata = loc[p].backupData.metadata]]
            /\ made' = made \cup {loc[p].backupData}
            /\ evicted' = evicted \cup Range(loc[p].pruned)
  /\ Faulted(io)
  /\ UNCHANGED <<dirExists, clock, codec>>

(***************************************************************************)
(* listBackups.                                                            *)
(***************************************************************************)
\* a view that flags no entry as the latest
ListViewNoLatest(backup, index, detailed) ==
  [name |-> backup.name, timestamp |-> backup.timestamp, reason |-> backup.reason,
   isLatest |-> FALSE, hasCounts |-> detailed,
   flowsCount |-> IF detailed THEN backup.flowsCount ELSE 0,
   nodesCount |-> IF detailed THEN backup.nodesCount ELSE 0,
   size |-> IF detailed THEN backup.size ELSE 0]

\* the view of one entry; the counts are present only when detailed
ListView(backup, index, detailed) ==
  [name |-> backup.name, timestamp |-> backup.timestamp, reason |-> backup.reason,
   isLatest |-> index = 1, hasCounts |-> detailed,
   flowsCount |-> IF detailed THEN backup.flowsCount ELSE 0,
   nodesCount |-> IF detailed THEN backup.nodesCount ELSE 0,
   size |-> IF detailed THEN backup.size ELSE 0]

listBackupsView(backups, detailed) ==
  LET sortedBackups == SortDesc(backups)
  IN [i \in DOMAIN sortedBackups |-> ListView(sortedBackups[i], i, detailed)]

\* what listBackups returns or throws once ensureBackupDirectory is done
listBackupsRead(fs, detailed, io) ==
  LET r == ReadJson(fs, MetadataFile, io)
  IN IF r.err # "" THEN ErrorResult(IF r.err = "ENOENT" THEN "IOFailure" ELSE r.err)
     ELSE IF r.doc.kind # "index" THEN ErrorResult("TypeError")
     ELSE [NoResult EXCEPT !.status = "ok",
                           !.list = listBackupsView(r.doc.backups, detailed)]

ListRead(p, io) ==
  /\ pc[p] = "listRead"
  /\ pc' = [pc EXCEPT ![p] = "done"]
  /\ loc' = [loc EXCEPT ![p].result = listBackupsRead(files, loc[p].detailed, io)]
  /\ Faulted(io)
  /\ UNCHANGED <<dirExists, files, clock, made, evicted, codec>>

(***************************************************************************)
(* getBackupFlows.                                                         *)
(***************************************************************************)
\* a getBackupFlows that looks the name up in the index before it reads
\* the file
getBackupFlowsIndexed(fs, backupName, io) ==
  LET r == ReadJson(fs, BackupFileName(backupName), io)
  IN IF ~HasName(IndexFile(fs).backups, backupName) THEN ErrorResult("NotFound")
     ELSE IF r.err = "ENOENT" THEN ErrorResult("NotFound")
     ELSE IF r.err # "" THEN ErrorResult(r.err)
     ELSE IF r.doc.kind # "backup" THEN ErrorResult("TypeError")
     ELSE IF ~VerifyChecksum(r.doc.flows, r.doc.metadata.checksum)
       THEN ErrorResult("Corrupted")
     ELSE [NoResult EXCEPT !.status = "ok", !.metadata = r.doc.metadata,
                           !.flows = r.doc.flows]

\* what getBackupFlows returns or throws once ensureBackupDirectory is done:
\* a document without flows makes the hash update throw a TypeError
getBackupFlowsRead(fs, backupName, io) ==
  LET r == ReadJson(fs, BackupFileName(backupName), io)
  IN IF r.err = "ENOENT" THEN ErrorResult("NotFound")
     ELSE IF r.err # "" THEN ErrorResult(r.err)
     ELSE IF r.doc.kind # "backup" THEN ErrorResult("TypeError")
     ELSE IF ~VerifyChecksum(r.doc.flows, r.doc.metadata.checksum)
       THEN ErrorResult("Corrupted")
     ELSE [NoResult EXCEPT !.status = "ok", !.metadata = r.doc.metadata,
                           !.flows = r.doc.flows]

GetRead(p, io) ==
  /\ pc[p] = "getRead"
  /\ pc' = [pc EXCEPT ![p] = "done"]
  /\ loc' = [loc EXCEPT ![p].result = getBackupFlowsRead(files, loc[p].name.val, io)]
  /\ Faulted(io)
  /\ UNCHANGED <<dirExists, files, clock, made, evicted, codec>>

(***************************************************************************)
(* checkBackupHealth.                                                      *)
(***************************************************************************)
\* the thresholds of the advisories: latestAge > 24, count >= maxBackups * 0.9
\* (as tenths), totalSize > 100 * 1024 * 1024
AgeThreshold == 24
CapacityTenths == 9
SizeThreshold == 100 * 1024 * 1024

\* stats.size: the length of the file's text, in tokens
FileSize(doc) ==
  CASE doc.kind = "backup" -> 7 + Len(Stringify(doc.flows))
    [] doc.kind = "index" -> 3 + 8 * Len(doc.backups)
    [] OTHER -> 1

\* Math.round(ms / (1000 * 60)), for ms >= 0
RoundMinutes(ms) == (ms + (MsPerMinute \div 2)) \div MsPerMinute

Health(healthy, count, totalSize, latestAge, issues) ==
  [healthy |-> healthy, count |-> count, totalSize |-> totalSize,
   latestAge |-> latestAge, issues |-> issues]

\* latestAge: null is -1
NullAge == -1

\* the catch of the try block: reading the index failed
HealthInitFailed(count) == Health(FALSE, count, 0, NullAge, <<"initfailed">>)

\* the report once every backup file has been looked at
HealthReport(metadata, corruptedCount, totalSize, now) ==
  LET count == Len(metadata.backups)
      latestBackup == SortDesc(metadata.backups)[1]
      latestAge == RoundMinutes(now - DateParse(latestBackup.timestamp))
      issues ==
        (IF corruptedCount > 0 THEN <<"corrupted">> ELSE <<>>)
          \o (IF latestAge # 0 /\ latestAge > AgeThreshold THEN <<"stale">> ELSE <<>>)
          \o (IF 10 * count >= CapacityTenths * metadata.config.maxBackups
                THEN <<"approaching">> ELSE <<>>)
          \o (IF totalSize > SizeThreshold THEN <<"size">> ELSE <<>>)
  IN Health(corruptedCount = 0, count, totalSize, latestAge, issues)

\* an empty index reported healthy
NoBackupsHealthy == Health(TRUE, 0, 0, NullAge, <<"nobackups">>)

\* the report of an index with no entries, returned before any file is read
NoBackupsHealth == Health(FALSE, 0, 0, NullAge, <<"nobackups">>)

\* await fs.readFile(metadataPath) inside the try block
HealthRead(p, io) ==
  /\ pc[p] = "healthRead"
  /\ LET r == ReadJson(files, MetadataFile, io)
         ok(h) == [NoResult EXCEPT !.status = "ok", !.health = h]
     IN IF r.err # "" \/ r.doc.kind # "index"
          THEN /\ pc' = [pc EXCEPT ![p] = "done"]
               /\ loc' = [loc EXCEPT ![p].result = ok(HealthInitFailed(0))]
        ELSE IF Len(r.doc.backups) = 0
          THEN /\ pc' = [pc EXCEPT ![p] = "done"]
               /\ loc' = [loc EXCEPT ![p].result =
                            ok(NoBackupsHealth)]
        ELSE /\ pc' = [pc EXCEPT ![p] = "healthScan"]
             /\ loc' = [loc EXCEPT ![p].metadata = r.doc, ![p].index = 1]
  /\ Faulted(io)
  /\ UNCHANGED <<dirExists, files, clock, made, evicted, codec>>

\* what one round of the loop adds to corruptedCount and totalSize: fs.stat
\* and fs.readFile of one backup file and its integrity check (io = "fail"
\* fails the stat)
ScanBackup(fs, backup, io) ==
  IF backup.filename \notin DOMAIN fs \/ io = "fail"
    THEN [corrupted |-> 1, size |-> 0]
  ELSE LET doc == fs[backup.filename]
       IN [corrupted |-> IF doc.kind # "backup" THEN 1
                         ELSE IF ~VerifyChecksum(doc.flows, backup.checksum) THEN 1
                         ELSE 0,
           size |-> FileSize(doc)]

\* one round of the loop over metadata.backups; after the last round the
\* report is made
HealthScan(p, io) ==
  /\ pc[p] = "healthScan"
  /\ LET l == loc[p]
         s == ScanBackup(files, l.metadata.backups[l.index], io)
         corruptedCount == l.corruptedCount + s.corrupted
         totalSize == l.totalSize + s.size
     IN IF l.index < Len(l.metadata.backups)
          THEN /\ loc' = [loc EXCEPT ![p].index = l.index + 1,
                                     ![p].corruptedCount = corruptedCount,
                                     ![p].totalSize = totalSize]
               /\ UNCHANGED pc
          ELSE /\ pc' = [pc EXCEPT ![p] = "done"]
               /\ loc' = [loc EXCEPT ![p].index = l.index + 1,
                            ![p].corruptedCount = corruptedCount,
                            ![p].totalSize = totalSize,
                            ![p].result =
                              [NoResult EXCEPT !.status = "ok",
                                 !.health = HealthReport(l.metadata, corruptedCount,
                                                         totalSize, clock)]]
  /\ Faulted(io)
  /\ UNCHANGED <<dirExists, files, clock, made, evicted, codec>>

(***************************************************************************)
(* The handler returns its result; the clock advances; a file is changed   *)
(* from outside.                                                           *)
(***************************************************************************)
Return(p) ==
  /\ pc[p] = "done"
  /\ pc' = [pc EXCEPT ![p] = "idle"]
  /\ loc' = [loc EXCEPT ![p] = InitLoc]
  /\ UNCHANGED <<dirExists, files, clock, made, evicted, codec, faults>>

Tick(t) ==
  /\ t > clock
  /\ clock' = t
  /\ UNCHANGED <<dirExists, files, pc, loc, made, evicted, codec, faults>>

\* the payload of a backup file is replaced, its metadata left as it is
Tamper(f, flows) ==
  /\ f \in DOMAIN files
  /\ files[f].kind = "backup"
  /\ flows # files[f].flows
  /\ files' = [files EXCEPT ![f].flows = flows]
  /\ UNCHANGED <<dirExists, clock, pc, loc, made, evicted, codec, faults>>

(***************************************************************************)
(* The integrity check on its own: a payload is analysed, then a payload   *)
(* is verified against the checksum of the analysis.                       *)
(***************************************************************************)
Analyze ==
  /\ codec.stage = "input"
  /\ analyzeFlows(codec.payload).err = ""
  /\ codec' = [codec EXCEPT !.stage = "analysed",
                            !.analysis = analyzeFlows(codec.payload).val]
  /\ UNCHANGED <<dirExists, files, clock, pc, loc, made, evicted, faults>>

Verify ==
  /\ codec.stage = "analysed"
  /\ codec' = [codec EXCEPT !.stage = "verified",
                            !.verified = VerifyChecksum(codec.other, codec.analysis.checksum)]
  /\ UNCHANGED <<dirExists, files, clock, pc, loc, made, evicted, faults>>

(***************************************************************************)
(* Specifications.                                                         *)
(***************************************************************************)
Idle == \A p \in Procs : pc[p] = "idle"

\* the names getBackupFlows is asked for
GetNames == {NameA, NameMetadata, NameReserved, GeneratedName(ToISOString(0))}

\* the steps of the invocations in flight, every file operation succeeding
StepOk(p) ==
  \/ Mkdir(p, "ok")
  \/ Access(p)
  \/ \E config \in Configs : InitWrite(p, config, "ok")
  \/ \E flows \in FlowResponses : FetchFlows(p, flows, "ok")
  \/ ReadMetadata(p, "ok")
  \/ WriteBackup(p, "ok")
  \/ UnlinkNext(p, "ok")
  \/ WriteMetadata(p, "ok")
  \/ ListRead(p, "ok")
  \/ GetRead(p, "ok")
  \/ HealthRead(p, "ok")
  \/ HealthScan(p, "ok")
  \/ Return(p)

\* a single writer: one invocation at a time, every file operation succeeding
Next ==
  \/ \E in \in CreateInputs : StartCreate(1, in)
  \/ \E detailed \in BOOLEAN : StartList(1, detailed)
  \/ \E name \in GetNames : StartGet(1, name)
  \/ StartHealth(1)
  \/ StepOk(1)
  \/ \E t \in ClockValues : Tick(t)

Spec == Init /\ [][Next]_vars

\* the inputs of the concurrent createBackup invocations
RaceInputs ==
  { [name |-> Undefined, reason |-> ""],
    [name |-> Str(NameA), reason |-> "nightly"] }
RaceFlows == {FlowsOne, FlowsTwo}
RaceConfigs ==
  { [maxBackups |-> 1, autoCleanup |-> "true"],
    [maxBackups |-> MaxCap, autoCleanup |-> "unset"] }

\* the steps of createBackup
CreateStep(p) ==
  \/ Mkdir(p, "ok")
  \/ Access(p)
  \/ \E config \in RaceConfigs : InitWrite(p, config, "ok")
  \/ \E flows \in RaceFlows : FetchFlows(p, flows, "ok")
  \/ ReadMetadata(p, "ok")
  \/ WriteBackup(p, "ok")
  \/ UnlinkNext(p, "ok")
  \/ WriteMetadata(p, "ok")
  \/ Return(p)

\* createBackup invocations in flight at once, interleaved at their awaits,
\* all within one millisecond
NextRace ==
  \/ \E p \in Procs, in \in RaceInputs : StartCreate(p, in)
  \/ \E p \in Procs : CreateStep(p)

SpecRace == Init /\ [][NextRace]_vars

\* the outcomes of a file operation or of the request to Node-RED
IO == {"ok", "fail"}

\* a single writer whose file operations and requests may fail
NextFault ==
  \/ \E in \in CreateInputs : StartCreate(1, in)
  \/ \E detailed \in BOOLEAN : StartList(1, detailed)
  \/ \E name \in GetNames : StartGet(1, name)
  \/ StartHealth(1)
  \/ \E io \in IO : Mkdir(1, io)
  \/ Access(1)
  \/ \E config \in Configs, io \in IO : InitWrite(1, config, io)
  \/ \E flows \in FlowResponses, io \in IO : FetchFlows(1, flows, io)
  \/ \E io \in IO : ReadMetadata(1, io)
  \/ \E io \in IO : WriteBackup(1, io)
  \/ \E io \in IO : UnlinkNext(1, io)
  \/ \E io \in IO : WriteMetadata(1, io)
  \/ \E io \in IO : ListRead(1, io)
  \/ \E io \in IO : GetRead(1, io)
  \/ \E io \in IO : HealthRead(1, io)
  \/ \E io \in IO : HealthScan(1, io)
  \/ Return(1)
  \/ \E t \in ClockValues : Tick(t)

SpecFault == Init /\ [][NextFault]_vars

\* the payloads a backup file is given from outside
TamperFlows == {FlowsOne, Array(<<>>)}

\* a single writer, and backup files changed from outside
NextTamper ==
  \/ Next
  \/ \E f \in DOMAIN files, flows \in TamperFlows : Tamper(f, flows)

SpecTamper == Init /\ [][NextTamper]_vars

\* the instants of a clock that lets backups age: 25 minutes and 25 hours on
AgedClockValues == {0, 25 * MsPerMinute, 25 * MsPerHour}

\* a single writer whose backups age between its operations
NextAged ==
  \/ \E in \in CreateInputs : StartCreate(1, in)
  \/ \E detailed \in BOOLEAN : StartList(1, detailed)
  \/ \E name \in GetNames : StartGet(1, name)
  \/ StartHealth(1)
  \/ StepOk(1)
  \/ \E t \in AgedClockValues : Tick(t)

SpecAged == Init /\ [][NextAged]_vars

\* the payloads of the integrity check
CodecIds == {"t1", "n1"}
CodecTypes == {"tab", "inject", NoType}
CodecElems == {Elem(id, type) : id \in CodecIds, type \in CodecTypes}
CodecPayloads ==
  {Array(<<>>)} \cup {Array(<<e>>) : e \in CodecElems}
    \cup {Array(<<e1, e2>>) : e1 \in CodecElems, e2 \in CodecElems}

InitCodec ==
  /\ dirExists = FALSE
  /\ files = [f \in {} |-> GarbageDoc]
  /\ clock = 0
  /\ pc = [p \in Procs |-> "idle"]
  /\ loc = [p \in Procs |-> InitLoc]
  /\ made = {}
  /\ evicted = {}
  /\ faults = 0
  /\ \E payload \in CodecPayloads, other \in CodecPayloads :
       codec = [NoCodec EXCEPT !.stage = "input", !.payload = payload, !.other = other]

NextCodec == Analyze \/ Verify

SpecCodec == InitCodec /\ [][NextCodec]_vars

(***************************************************************************)
(* What the claims speak of.                                               *)
(***************************************************************************)
\* the index file is there and decodes to an index
IndexOnDisk == MetadataFile \in DOMAIN files /\ files[MetadataFile].kind = "index"

\* the entries of the index on disk
Entries == IF IndexOnDisk THEN files[MetadataFile].backups ELSE <<>>

StoredConfig == files[MetadataFile].config

\* the file of an entry is on disk and is not the index
HasBackupFile(fs, filename) == filename \in DOMAIN fs /\ fs[filename].kind # "index"

\* the entry of a backup made is in the index on disk
Retained(m) == \E i \in DOMAIN Entries : Entries[i] = IndexEntry(m.metadata)

Min(a, b) == IF a < b THEN a ELSE b

CreateDone(p) == pc[p] = "done" /\ loc[p].op = "create"
CreateOk(p) == CreateDone(p) /\ loc[p].result.status = "ok"

(***************************************************************************)
(* C1: with the stored autoCleanup true, once a createBackup of a single   *)
(* writer has completed the index is on disk and holds at most the stored  *)
(* maxBackups entries.                                                     *)
(***************************************************************************)
C1_CapacityAfterCreate ==
  \A p \in Procs :
    CreateDone(p) =>
      /\ IndexOnDisk
      /\ StoredConfig.autoCleanup => Len(Entries) <= StoredConfig.maxBackups

\* a createBackup that pruned has completed and the index is full
C1_Witness ==
  \E p \in Procs :
    /\ CreateOk(p)
    /\ loc[p].pruned # <<>>
    /\ StoredConfig.autoCleanup
    /\ Len(Entries) = StoredConfig.maxBackups

(***************************************************************************)
(* C2: with the stored autoCleanup true and capacity C, once N backups of  *)
(* distinct names have been made one after the other, the index holds      *)
(* min(N, C) entries, each of them one of the backups made and none older  *)
(* than a backup it has dropped, and no dropped backup has its file left.  *)
(***************************************************************************)
DistinctNames(S) == \A m1, m2 \in S : m1.metadata.name = m2.metadata.name => m1 = m2

C3_UniqueNames ==
  \A i, j \in DOMAIN Entries : Entries[i].name = Entries[j].name => i = j

\* two invocations in flight at once made a backup of the same name
C3_Witness ==
  /\ \E p, q \in Procs :
       /\ p # q
       /\ CreateOk(p) /\ CreateOk(q)
       /\ loc[p].result.metadata.name = loc[q].result.metadata.name
  /\ Len(Entries) >= 1

(***************************************************************************)
(* C4: a createBackup whose name is the name of an entry of the index      *)
(* fails with DuplicateName (it does not get past the duplicate check),    *)
(* and after it the backup made first is still in the index and            *)
(* getBackupFlows still returns it with the payload it was made with.      *)
(***************************************************************************)
PastDuplicateCheck(p) ==
  loc[p].op = "create" /\ pc[p] \in {"writeBackup", "unlink", "writeMetadata"}

\* what getBackupFlows returns for a backup that is intact
Fetched(m) == [NoResult EXCEPT !.status = "ok", !.metadata = m.metadata, !.flows = m.flows]

C4_DuplicateRefused ==
  \A p \in Procs :
    /\ PastDuplicateCheck(p) => ~HasName(Entries, loc[p].backupData.metadata.name)
    /\ (CreateDone(p) /\ loc[p].result.error = "DuplicateName") =>
         \E m \in made :
           /\ m.metadata.name = loc[p].backupData.metadata.name
           /\ Retained(m)
           /\ getBackupFlowsRead(files, m.metadata.name, "ok") = Fetched(m)

(***************************************************************************)
(* C5: a createBackup given a name that does not match the                 *)
(* pattern, or that is a reserved word in any letter case, fails with      *)
(* InvalidName.                                                            *)
(***************************************************************************)
BadName(name) == ~NamePatternTest(name) \/ ToLowerCase(name) \in ReservedNames

C5_Original ==
  \A p \in Procs :
    (CreateDone(p) /\ loc[p].name.given /\ BadName(loc[p].name.val)) =>
      loc[p].result.error = "InvalidName"

(***************************************************************************)
(* Apart from the empty name, which is taken as no name (one is            *)
(* generated), the rest of C5 holds: a createBackup given a non-empty name *)
(* that does not match the pattern, or that is a reserved word in any      *)
(* letter case, fails with InvalidName, and no step of it changes a backup *)
(* file or the entries of the index; every name in the index matches the   *)
(* pattern and is not a reserved word.                                     *)
(***************************************************************************)
BackupFiles == [f \in DOMAIN files \ {MetadataFile} |-> files[f]]

BadNameGiven(p) ==
  loc[p].op = "create" /\ Truthy(loc[p].name) /\ BadName(loc[p].name.val)

NonEmptyBadNameRefused ==
  /\ [](\A p \in Procs :
          (CreateDone(p) /\ BadNameGiven(p)) => loc[p].result.error = "InvalidName")
  /\ [](\A i \in DOMAIN Entries : ~BadName(Entries[i].name))
  /\ [][\A p \in Procs :
          BadNameGiven(p) => (BackupFiles' = BackupFiles /\ Entries' = Entries)]_vars

(***************************************************************************)
(* C6: between the operations of a single writer, getBackupFlows of a      *)
(* backup createBackup has returned, its entry still in the index,         *)
(* succeeds with the payload received from Node-RED during that            *)
(* createBackup and the metadata createBackup returned.                    *)
(***************************************************************************)
C6_RoundTrip ==
  Idle =>
    \A m \in made :
      Retained(m) => getBackupFlowsRead(files, m.metadata.name, "ok") = Fetched(m)

(***************************************************************************)
(* C7: when the payload in a backup file has been changed and its metadata *)
(* left alone, getBackupFlows of it fails with Corrupted and returns no    *)
(* payload, while listBackups succeeds and lists every entry of the index. *)
(***************************************************************************)
Tampered(name) ==
  LET f == BackupFileName(name)
  IN /\ f \in DOMAIN files
     /\ files[f].kind = "backup"
     /\ \E m \in made : m.metadata = files[f].metadata /\ m.flows # files[f].flows

Lists(list, backups) ==
  /\ Len(list) = Len(backups)
  /\ \A i \in DOMAIN backups : \E j \in DOMAIN list : list[j].name = backups[i].name

C7_TamperDetected ==
  [][\A p \in Procs :
       /\ (pc[p] = "getRead" /\ pc'[p] = "done" /\ Tampered(loc[p].name.val)) =>
            /\ loc'[p].result.status = "error"
            /\ loc'[p].result.error = "Corrupted"
            /\ loc'[p].result.flows = NotArray
       /\ (pc[p] = "listRead" /\ pc'[p] = "done"
             /\ \E i \in DOMAIN Entries : Tampered(Entries[i].name)) =>
            /\ loc'[p].result.status = "ok"
            /\ Lists(loc'[p].result.list, Entries)]_vars

\* getBackupFlows has failed on a backup whose payload was changed, its
\* entry in the index
C7_Witness ==
  \E p \in Procs :
    /\ pc[p] = "done"
    /\ loc[p].op = "get"
    /\ loc[p].result.error = "Corrupted"
    /\ Tampered(loc[p].name.val)
    /\ HasName(Entries, loc[p].name.val)

C9_NoLostUpdate ==
  Idle => \A m \in made : Retained(m) \/ IndexEntry(m.metadata) \in evicted

(***************************************************************************)
(* C10: between the operations of a single writer, createBackup            *)
(* invocations that failed at a file operation included, every entry of    *)
(* the index has its backup file on disk.                                  *)
(***************************************************************************)
C10_EntriesHaveFiles ==
  Idle => \A i \in DOMAIN Entries : HasBackupFile(files, Entries[i].filename)

(***************************************************************************)
(* C11: a createBackup that fails, at whatever step, leaves on disk an     *)
(* index with the entries it had when the invocation began.                *)
(***************************************************************************)
BeforeBackupWrite == {"mkdir", "access", "initWrite", "fetchFlows", "readMetadata"}

\* the step that ends a createBackup with an error
FailingStep(p) ==
  /\ loc[p].op = "create"
  /\ pc[p] # "done"
  /\ pc'[p] = "done"
  /\ loc'[p].result.status = "error"

C11_FailedCreateKeepsEntries ==
  [][\A p \in Procs :
       loc[p].op = "create" =>
         /\ pc[p] \in BeforeBackupWrite => Range(Entries') = Range(Entries)
         /\ (FailingStep(p) /\ pc[p] \notin BeforeBackupWrite) =>
              Range(Entries') = Range(loc[p].read.backups)]_vars

\* the second half of C11 on its own: past its initialisation the index
\* file changes only at the index write
IndexWrittenLast ==
  [][\A p \in Procs :
       (loc[p].op = "create" /\ IndexFile(files') # IndexFile(files)
          /\ pc[p] # "initWrite") => pc[p] = "writeMetadata"]_vars

(***************************************************************************)
(* C12: when the unlink of a pruned entry's file fails, createBackup goes  *)
(* on to the next file to delete and then to the index write; it fails     *)
(* only if another operation fails, and the index it writes holds none of  *)
(* the pruned entries.                                                     *)
(***************************************************************************)
\* a file createBackup was to delete is still there
UnlinkFailed(p) ==
  \E i \in DOMAIN loc[p].pruned : HasBackupFile(files, loc[p].pruned[i].filename)

C12_UnlinkFailureSwallowed ==
  /\ [][\A p \in Procs :
          (pc[p] = "unlink" /\ loc'[p] # loc[p]) =>
            /\ loc'[p].toDelete = Tail(loc[p].toDelete)
            /\ pc'[p] = IF Tail(loc[p].toDelete) = <<>> THEN "writeMetadata" ELSE "unlink"]_vars
  /\ [](\A p \in Procs :
          (CreateDone(p) /\ UnlinkFailed(p) /\ faults = 1) => loc[p].result.status = "ok")
  /\ [](\A p \in Procs :
          CreateOk(p) =>
            \A i \in DOMAIN loc[p].pruned :
              \A j \in DOMAIN Entries : Entries[j] # loc[p].pruned[i])

\* a createBackup has returned its backup though the file of the entry it
\* pruned could not be deleted
C12_Witness ==
  \E p \in Procs :
    /\ CreateOk(p)
    /\ UnlinkFailed(p)
    /\ IndexOnDisk
    /\ \A j \in DOMAIN Entries : Entries[j] # loc[p].pruned[1]

(***************************************************************************)
(* C13: listBackups returns the entries in strictly descending order of    *)
(* timestamp.                                                              *)
(***************************************************************************)
ListDone(p) == pc[p] = "done" /\ loc[p].op = "list"

C13_Original ==
  \A p \in Procs :
    (ListDone(p) /\ loc[p].result.status = "ok") =>
      LET list == loc[p].result.list
      IN \A i, j \in DOMAIN list :
           i < j => DateParse(list[i].timestamp) > DateParse(list[j].timestamp)

(***************************************************************************)
(* C13, amended: listBackups, detailed or not, returns every entry of the  *)
(* index once, in descending order of timestamp, entries of the same       *)
(* timestamp in the order of the index; isLatest is true on the first and  *)
(* false on every other; flowsCount, nodesCount and size are in the view,  *)
(* with the values of the entry, exactly when detailed is true.            *)
(***************************************************************************)
\* where the entry of a name stands in the index
PositionOf(name) == CHOOSE k \in DOMAIN Entries : Entries[k].name = name

C13_ListOrdered ==
  \A p \in Procs :
    ListDone(p) =>
      LET list == loc[p].result.list
      IN /\ loc[p].result.status = "ok"
         /\ Len(list) = Len(Entries)
         /\ \A k \in DOMAIN Entries : \E i \in DOMAIN list : list[i].name = Entries[k].name
         /\ \A i \in DOMAIN list :
              LET e == Entries[PositionOf(list[i].name)]
              IN /\ list[i].timestamp = e.timestamp
                 /\ list[i].reason = e.reason
                 /\ list[i].isLatest <=> i = 1
                 /\ list[i].hasCounts <=> loc[p].detailed
                 /\ loc[p].detailed =>
                      /\ list[i].flowsCount = e.flowsCount
                      /\ list[i].nodesCount = e.nodesCount
                      /\ list[i].size = e.size
         /\ \A i, j \in DOMAIN list :
              i < j =>
                /\ DateParse(list[i].timestamp) >= DateParse(list[j].timestamp)
                /\ list[i].timestamp = list[j].timestamp =>
                     PositionOf(list[i].name) < PositionOf(list[j].name)

\* a detailed list of two entries, the newer one, last in the index, first
C13_Witness ==
  \E p \in Procs :
    /\ ListDone(p)
    /\ loc[p].detailed
    /\ Len(loc[p].result.list) = 2
    /\ DateParse(loc[p].result.list[1].timestamp)
         > DateParse(loc[p].result.list[2].timestamp)
    /\ Entries[2].name = loc[p].result.list[1].name

(***************************************************************************)
(* C14: checkBackupHealth makes a report, and the report says healthy =    *)
(* false exactly when the index has no entries, or an entry is corrupted   *)
(* (its file missing, not decodable, or of another checksum), or the       *)
(* initialisation or the read of the index failed.                         *)
(***************************************************************************)
HealthDone(p) == pc[p] = "done" /\ loc[p].op = "health"

\* the backup file of an entry is there and its payload has the checksum of
\* the entry
Intact(e) ==
  /\ HasBackupFile(files, e.filename)
  /\ files[e.filename].kind = "backup"
  /\ VerifyChecksum(files[e.filename].flows, e.checksum)

\* an index with entries, none of them corrupted
ArchiveSound ==
  /\ IndexOnDisk
  /\ Len(Entries) > 0
  /\ \A i \in DOMAIN Entries : Intact(Entries[i])

\* what a report says of the healthy flag: false when the archive is not
\* sound, true when it is and no operation has failed
FlagRight(h) ==
  /\ h.healthy => ArchiveSound
  /\ (faults = 0 /\ ArchiveSound) => h.healthy

C14_UnhealthyExactlyWhen ==
  \A p \in Procs :
    HealthDone(p) =>
      /\ loc[p].result.status = "ok"
      /\ FlagRight(loc[p].result.health)

\* the part of C14 that holds: a report, when one is made, has the flag right
HealthFlagRightWhenReported ==
  \A p \in Procs :
    (HealthDone(p) /\ loc[p].result.status = "ok") => FlagRight(loc[p].result.health)

(***************************************************************************)
(* C15: with one backup made on a fresh archive and nothing else, the      *)
(* report of checkBackupHealth says healthy = true and has no issues,      *)
(* whatever the capacity (the backup is seconds old and small).            *)
(***************************************************************************)
OneBackupMade == Cardinality(made) = 1 /\ evicted = {} /\ Len(Entries) = 1

C15_HealthyAfterFirstCreate ==
  \A p \in Procs :
    (HealthDone(p) /\ OneBackupMade) =>
      /\ loc[p].result.status = "ok"
      /\ loc[p].result.health.healthy
      /\ loc[p].result.health.issues = <<>>

\* what holds of the report after one backup: healthy unless the backup is
\* named backup_metadata, and no issue but the one its capacity of 1 brings
HealthAfterFirstCreate ==
  \A p \in Procs :
    (HealthDone(p) /\ OneBackupMade /\ Entries[1].name # NameMetadata) =>
      /\ loc[p].result.status = "ok"
      /\ loc[p].result.health.healthy
      /\ loc[p].result.health.issues =
           IF StoredConfig.maxBackups = 1 THEN <<"approaching">> ELSE <<>>

(***************************************************************************)
(* C16: on an index with no entries checkBackupHealth reports healthy =    *)
(* false with the one issue that tells to create a first backup, count 0,  *)
(* total size 0 and no latest age, and looks at no backup file.            *)
(***************************************************************************)
C16_EmptyArchiveReport ==
  \A p \in Procs :
    (HealthDone(p) /\ IndexOnDisk /\ Len(Entries) = 0) =>
      /\ loc[p].result.status = "ok"
      /\ ~loc[p].result.health.healthy
      /\ loc[p].result.health.issues = <<"nobackups">>
      /\ loc[p].result.health.count = 0
      /\ loc[p].result.health.totalSize = 0
      /\ loc[p].result.health.latestAge = NullAge
      /\ loc[p].index = 0

\* the report of an archive that checkBackupHealth itself initialised
C16_Witness ==
  \E p \in Procs :
    /\ HealthDone(p)
    /\ made = {}
    /\ IndexOnDisk /\ Len(Entries) = 0
    /\ loc[p].result.health.issues = <<"nobackups">>

(***************************************************************************)
(* C17: the report of checkBackupHealth has the stale-backup advisory      *)
(* exactly when the newest entry is more than 24 hours old.                *)
(***************************************************************************)
\* the time of the newest entry
NewestTime(backups) ==
  CHOOSE t \in {DateParse(backups[i].timestamp) : i \in DOMAIN backups} :
    \A i \in DOMAIN backups : DateParse(backups[i].timestamp) <= t

\* the step that makes the report
Reports(p) == pc[p] = "healthScan" /\ pc'[p] = "done"

Stale(h) == \E i \in DOMAIN h.issues : h.issues[i] = "stale"

C17_StaleAfterDay ==
  [][\A p \in Procs :
       Reports(p) =>
         (Stale(loc'[p].result.health)
            <=> clock - NewestTime(loc[p].metadata.backups) > 24 * MsPerHour)]_vars

\* what the code does: the advisory goes with an age, rounded to minutes, of
\* more than 24 minutes
StaleAfterMinutes ==
  [][\A p \in Procs :
       Reports(p) =>
         (Stale(loc'[p].result.health)
            <=> RoundMinutes(clock - NewestTime(loc[p].metadata.backups)) > 24)]_vars

(***************************************************************************)
(* C18: every operation of a single writer, one that then fails included,  *)
(* leaves the backup directory and the index in place; its initialisation  *)
(* writes an index with no entries when there is no index file and changes *)
(* no file when there is one.                                              *)
(***************************************************************************)
Initialising == {"mkdir", "access", "initWrite"}

C18_LazyIdempotentInit ==
  /\ [](\A p \in Procs : pc[p] = "done" => (dirExists /\ MetadataFile \in DOMAIN files))
  /\ [][\A p \in Procs :
          pc[p] \in Initialising =>
            /\ pc'[p] \notin Initialising => (dirExists' /\ IndexOnDisk')
            /\ IF MetadataFile \in DOMAIN files
                 THEN files' = files
                 ELSE \/ files' = files
                      \/ /\ IndexOnDisk'
                         /\ Entries' = <<>>
                         /\ BackupFiles' = BackupFiles]_vars

\* a getBackupFlows that found no backup has left a fresh archive behind
C18_Witness ==
  \E p \in Procs :
    /\ pc[p] = "done"
    /\ loc[p].op = "get"
    /\ loc[p].result.error = "NotFound"
    /\ made = {}
    /\ dirExists
    /\ IndexOnDisk
    /\ Entries = <<>>

(***************************************************************************)
(* C19: once an index is on disk no operation changes the capacity or the  *)
(* autoCleanup flag stored in it, whatever runtime configuration the       *)
(* operation is given, and createBackup prunes by the stored values: it    *)
(* deletes what exceeds the stored capacity when the stored flag is true,  *)
(* and nothing when it is false.                                           *)
(***************************************************************************)
\* the number of entries to delete once one is pushed, by the stored values
Excess(index) ==
  IF index.config.autoCleanup /\ Len(index.backups) + 1 > index.config.maxBackups
    THEN Len(index.backups) + 1 - index.config.maxBackups
    ELSE 0

Positions ==
  {"idle", "mkdir", "access", "initWrite", "fetchFlows", "readMetadata", "writeBackup",
   "unlink", "writeMetadata", "listRead", "getRead", "healthRead", "healthScan", "done"}

C20_ErrorsReturned ==
  /\ [](\A p \in Procs : pc[p] \in Positions)
  /\ [](\A p \in Procs :
          pc[p] = "done" =>
            /\ loc[p].result.status \in {"ok", "error"}
            /\ loc[p].result.status = "error" <=>
                 loc[p].result.error \in
                   {"InvalidName", "InvalidPayload", "TypeError", "DuplicateName",
                    "NotFound", "Corrupted", "SyntaxError", "IOFailure"}
            /\ loc[p].result.status = "ok" <=> loc[p].result.error = "")
  /\ [][\A p \in Procs :
          (pc[p] = "done" /\ pc'[p] # "done") => (pc'[p] = "idle" /\ loc'[p] = InitLoc)]_vars

\* listBackups has answered after a createBackup failed at its index write,
\* leaving a backup file that no index entry and no backup made accounts for
C20_Witness ==
  \E p \in Procs :
    /\ ListDone(p)
    /\ loc[p].result.status = "ok"
    /\ \E f \in DOMAIN files \ {MetadataFile} :
         /\ files[f].kind = "backup"
         /\ \A m \in made : m.metadata # files[f].metadata

(***************************************************************************)
(* C21: between the operations of a single writer, whatever the            *)
(* configuration the index was initialised with, the backup directory      *)
(* holds at most as many backup files as the stored capacity.              *)
(***************************************************************************)
\* the backup files of the directory: every file but the index
SnapshotFiles == DOMAIN files \ {MetadataFile}

CreateSuccessors(at) ==
  CASE at = "mkdir" -> {"access", "done"}
    [] at = "access" -> {"initWrite", "fetchFlows"}
    [] at = "initWrite" -> {"fetchFlows", "done"}
    [] at = "fetchFlows" -> {"readMetadata", "done"}
    [] at = "readMetadata" -> {"writeBackup", "done"}
    [] at = "writeBackup" -> {"unlink", "writeMetadata", "done"}
    [] at = "unlink" -> {"unlink", "writeMetadata"}
    [] at = "writeMetadata" -> {"done"}
    [] OTHER -> {"idle"}

\* the name given does not match the pattern or is a reserved word
NameRefusable(p) == loc[p].name.given /\ BadName(loc[p].name.val)

\* the step that ends the request for the flows and the checks made with it
ChecksFail(p) == loc[p].op = "create" /\ pc[p] = "fetchFlows" /\ pc'[p] = "done"

C22_CreateOrder ==
  /\ [][\A p \in Procs :
          (loc[p].op = "create" /\ loc'[p].op = "create"
             /\ (pc'[p] # pc[p] \/ loc'[p] # loc[p])) =>
            pc'[p] \in CreateSuccessors(pc[p])]_vars
  /\ [][\A p \in Procs :
          ChecksFail(p) =>
            /\ faults' # faults => loc'[p].result.error = "IOFailure"
            /\ (faults' = faults /\ NameRefusable(p)) =>
                 loc'[p].result.error = "InvalidName"
            /\ loc'[p].result.error = "InvalidPayload" =>
                 (faults' = faults /\ ~NameRefusable(p))]_vars
  /\ [][\A p \in Procs :
          (loc[p].op = "create" /\ pc[p] = "fetchFlows" /\ pc'[p] = "readMetadata") =>
            /\ ~NameRefusable(p)
            /\ analyzeFlows(loc'[p].flows).err = ""]_vars
  /\ [](\A p \in Procs :
          (CreateDone(p) /\ loc[p].result.error = "DuplicateName") =>
            /\ ~NameRefusable(p)
            /\ analyzeFlows(loc[p].flows).err = ""
            /\ HasName(Entries, loc[p].backupData.metadata.name))
  /\ [][\A p \in Procs :
          (loc[p].op = "create" /\ pc[p] \in {"fetchFlows", "readMetadata"}) =>
            files' = files]_vars

\* what holds of the order: C22 with the empty name left out of the names
\* to refuse
CreateOrderNonEmptyName ==
  /\ [][\A p \in Procs :
          (loc[p].op = "create" /\ loc'[p].op = "create"
             /\ (pc'[p] # pc[p] \/ loc'[p] # loc[p])) =>
            pc'[p] \in CreateSuccessors(pc[p])]_vars
  /\ [][\A p \in Procs :
          ChecksFail(p) =>
            /\ faults' # faults => loc'[p].result.error = "IOFailure"
            /\ (faults' = faults /\ BadNameGiven(p)) =>
                 loc'[p].result.error = "InvalidName"
            /\ loc'[p].result.error = "InvalidPayload" =>
                 (faults' = faults /\ ~BadNameGiven(p))]_vars
  /\ [][\A p \in Procs :
          (loc[p].op = "create" /\ pc[p] = "fetchFlows" /\ pc'[p] = "readMetadata") =>
            /\ ~BadNameGiven(p)
            /\ analyzeFlows(loc'[p].flows).err = ""]_vars
  /\ [](\A p \in Procs :
          (CreateDone(p) /\ loc[p].result.error = "DuplicateName") =>
            /\ ~BadNameGiven(p)
            /\ analyzeFlows(loc[p].flows).err = ""
            /\ HasName(Entries, loc[p].backupData.metadata.name))
  /\ [][\A p \in Procs :
          (loc[p].op = "create" /\ pc[p] \in {"fetchFlows", "readMetadata"}) =>
            files' = files]_vars

(***************************************************************************)
(* C23: under a single writer no step of listBackups, getBackupFlows or    *)
(* checkBackupHealth, and no step of createBackup up to its duplicate      *)
(* check, changes the entries of the index; when a createBackup ends, each *)
(* entry the index had is in it unchanged, unless the createBackup         *)
(* succeeded and pruned it, and the index has no other entry than those    *)
(* and the one pushed.                                                     *)
(***************************************************************************)
\* the step that ends a createBackup that got past its duplicate check
EndsPastCheck(p) ==
  /\ loc[p].op = "create"
  /\ pc[p] \notin BeforeBackupWrite \cup {"done"}
  /\ pc'[p] = "done"

C23_EntriesImmutable ==
  [][\A p \in Procs :
       /\ (loc[p].op \in {"list", "get", "health"}
             \/ (loc[p].op = "create" /\ pc[p] \in BeforeBackupWrite)) =>
            Entries' = Entries
       /\ EndsPastCheck(p) =>
            /\ \A i \in DOMAIN loc[p].read.backups :
                 \/ \E j \in DOMAIN Entries' : Entries'[j] = loc[p].read.backups[i]
                 \/ /\ loc'[p].result.status = "ok"
                    /\ \E k \in DOMAIN loc[p].pruned :
                         loc[p].pruned[k] = loc[p].read.backups[i]
            /\ \A j \in DOMAIN Entries' :
                 \/ \E i \in DOMAIN loc[p].read.backups :
                      loc[p].read.backups[i] = Entries'[j]
                 \/ Entries'[j] = IndexEntry(loc[p].backupData.metadata)]_vars

(***************************************************************************)
(* C24: when createBackup returns its backup and the stored capacity is at *)
(* least 1, the entry of that backup is in the index on disk and its       *)
(* backup file is on disk, whatever the timestamps of the entries the      *)
(* index had.                                                              *)
(***************************************************************************)
\* what createBackup returned is in the index and has its file
OwnBackupKept(p) ==
  /\ \E j \in DOMAIN Entries : Entries[j] = IndexEntry(loc[p].result.metadata)
  /\ HasBackupFile(files, BackupFileName(loc[p].result.metadata.name))

C24_OwnBackupKept ==
  \A p \in Procs :
    (CreateOk(p) /\ IndexOnDisk /\ StoredConfig.maxBackups >= 1) => OwnBackupKept(p)

\* the backup is newer than every entry createBackup read
NewerThanRead(p) ==
  \A i \in DOMAIN loc[p].read.backups :
    DateParse(loc[p].read.backups[i].timestamp) < DateParse(loc[p].timestamp)

\* what holds: the backup returned is kept when it is newer than every entry
\* of the index, or nothing was pruned, and its name is not backup_metadata
OwnBackupKeptWhenNewer ==
  \A p \in Procs :
    (CreateOk(p) /\ (NewerThanRead(p) \/ loc[p].pruned = <<>>)
       /\ loc[p].result.metadata.name # NameMetadata) => OwnBackupKept(p)

(***************************************************************************)
(* C25: a createBackup called without a name never fails with              *)
(* DuplicateName, however short the time since the backup before it.       *)
(***************************************************************************)
C25_GeneratedNameFresh ==
  \A p \in Procs :
    (CreateDone(p) /\ ~loc[p].name.given) => loc[p].result.error # "DuplicateName"

\* the second an ISO timestamp falls in
SecondOf(timestamp) == DateParse(timestamp) \div MsPerSecond

\* what holds: a createBackup without a name fails with DuplicateName only
\* against an entry made within the same second
GeneratedNameFreshAcrossSeconds ==
  \A p \in Procs :
    (CreateDone(p) /\ ~Truthy(loc[p].name) /\ loc[p].result.error = "DuplicateName") =>
      \E i \in DOMAIN Entries :
        /\ Entries[i].name = GeneratedName(loc[p].timestamp)
        /\ SecondOf(Entries[i].timestamp) = SecondOf(loc[p].timestamp)

(***************************************************************************)
(* C26: getBackupFlows of a name that is not the name of an entry of the   *)
(* index fails with NotFound, also when a backup file of that name is on   *)
(* disk (an entry pruned whose unlink failed, a file no entry accounts     *)
(* for).                                                                   *)
(***************************************************************************)
\* the step in which getBackupFlows reads the file and answers
Fetches(p) == loc[p].op = "get" /\ pc[p] = "getRead" /\ pc'[p] = "done"

C26_Original ==
  [][\A p \in Procs :
       (Fetches(p) /\ ~HasName(Entries, loc[p].name.val)) =>
         loc'[p].result.error = "NotFound"]_vars

(***************************************************************************)
(* C26, amended: getBackupFlows does not look at the index; it fails with  *)
(* NotFound exactly when no file of that name is in the backup directory,  *)
(* so for an entry pruned with its file deleted; when it succeeds it       *)
(* returns the metadata and the payload of the file, whose checksum        *)
(* verifies, whether an entry of the index has that name or not.           *)
(***************************************************************************)
C26_FetchReadsFile ==
  [][\A p \in Procs :
       Fetches(p) =>
         LET f == BackupFileName(loc[p].name.val)
             r == loc'[p].result
         IN /\ r.error = "NotFound" <=> f \notin DOMAIN files
            /\ r.status = "ok" =>
                 /\ f \in DOMAIN files
                 /\ files[f].kind = "backup"
                 /\ VerifyChecksum(files[f].flows, files[f].metadata.checksum)
                 /\ r.metadata = files[f].metadata
                 /\ r.flows = files[f].flows
            /\ (f \in DOMAIN files /\ files[f].kind = "backup" /\ faults' = faults
                  /\ VerifyChecksum(files[f].flows, files[f].metadata.checksum)) =>
                 r.status = "ok"]_vars

\* getBackupFlows has returned a backup that a createBackup pruned from the
\* index, the unlink of its file having failed
C26_Witness ==
  \E p \in Procs :
    /\ pc[p] = "done"
    /\ loc[p].op = "get"
    /\ loc[p].result.status = "ok"
    /\ IndexOnDisk
    /\ ~HasName(Entries, loc[p].name.val)
    /\ IndexEntry(loc[p].result.metadata) \in evicted

(***************************************************************************)
(* C27: once the createBackup invocations that ran at once have returned,  *)
(* every entry of the index whose backup file is on disk has the name, the *)
(* timestamp and the checksum stored in that file, so the integrity check  *)
(* of getBackupFlows (against the checksum in the file) and the one of     *)
(* checkBackupHealth (against the checksum in the entry) give the same     *)
(* verdict.                                                                *)
(***************************************************************************)
\* the entry and the metadata in its backup file are the same
FileMatchesEntry(e) ==
  LET m == files[e.filename].metadata
  IN /\ m.name = e.name
     /\ m.timestamp = e.timestamp
     /\ m.checksum = e.checksum

\* the two integrity checks agree on the backup file of the entry
ChecksAgree(e) ==
  VerifyChecksum(files[e.filename].flows, files[e.filename].metadata.checksum)
    <=> VerifyChecksum(files[e.filename].flows, e.checksum)

C27_FileMatchesIndex ==
  Idle =>
    \A i \in DOMAIN Entries :
      (Entries[i].filename \in DOMAIN files /\ files[Entries[i].filename].kind = "backup") =>
        /\ FileMatchesEntry(Entries[i])
        /\ ChecksAgree(Entries[i])

(***************************************************************************)
(* C28: whatever the interleaving of the invocations on a backup directory *)
(* that had no index, the write of the fresh index by                      *)
(* ensureBackupDirectory never replaces an index that holds entries.       *)
(***************************************************************************)
\* the step in which ensureBackupDirectory writes the fresh index
WritesFreshIndex(p) == pc[p] = "initWrite" /\ pc'[p] # "initWrite" /\ files' # files

C28_InitKeepsEntries ==
  [][\A p \in Procs : WritesFreshIndex(p) => Entries = <<>>]_vars

====
